---- MODULE Spec2Model ----
(***************************************************************************)
(* Cortex Agent chat (Streamlit-in-Snowflake): thread / message            *)
(* reconciliation and the API-call audit trail.                            *)
(*                                                                         *)
(* Python and JSON values are tagged records: the field t is the Python    *)
(* type.  A dict is a record with t = "obj" whose other fields are the     *)
(* keys that are present, so a missing key is a field that is not in the   *)
(* DOMAIN.  A str is a sequence of symbols (v), "" is << >>.               *)
(***************************************************************************)
EXTENDS FiniteSets, Integers, Sequences, TLC

VARIABLES
    threads,            \* THREADS_TABLE, rows in insertion order
    msgs,               \* MESSAGES_TABLE, rows in insertion order
    audit,              \* AUDIT_TABLE, rows in insertion order
    current_thread_id,  \* st.session_state.current_thread_id
    parent_message_id,  \* st.session_state.parent_message_id
    messages,           \* st.session_state.messages
    attempts,           \* number of _snowflake.send_snow_api_request calls made
    last                \* the locals of the handler that ran last

vars == <<threads, msgs, audit, current_thread_id, parent_message_id,
          messages, attempts, last>>

-----------------------------------------------------------------------------
(* Bounds of the model *)

MaxAttempts == 4    \* remote calls made in one behaviour
MaxEvents == 2      \* events in one agent:run response body
MaxHistory == 1     \* completed turns behind the cursor at the start (SpecTurn)

-----------------------------------------------------------------------------
(* Python values *)

None == [t |-> "null"]
PyInt(n) == [t |-> "int", v |-> n]
PyFloat(n) == [t |-> "float", v |-> n]
PyBool(b) == [t |-> "bool", v |-> b]
PyStr(s) == [t |-> "str", v |-> s]
PyList(s) == [t |-> "list", v |-> s]
EmptyDict == [t |-> "obj"]
S(tok) == PyStr(<<tok>>)
EmptyStr == PyStr(<< >>)

IsDict(x) == x.t = "obj"

\* dict.get(key, default)
Get(o, key, default) == IF key \in DOMAIN o THEN o[key] ELSE default

\* bool(x) is False
Falsy(x) ==
    \/ x.t = "null"
    \/ x.t \in {"int", "float"} /\ x.v = 0
    \/ x.t = "bool" /\ ~x.v
    \/ x.t \in {"str", "list"} /\ x.v = << >>
    \/ x.t = "obj" /\ DOMAIN x = {"t"}

\* `for e in x` raises TypeError
NotIterable(x) == x.t \in {"null", "int", "float", "bool"}

RECURSIVE SetToSeq(_)
SetToSeq(s) ==
    IF s = {} THEN << >>
    ELSE LET e == CHOOSE e \in s : TRUE IN <<e>> \o SetToSeq(s \ {e})

\* the elements `for e in x` yields: a list's elements, a str's characters,
\* a dict's keys
Iterate(x) ==
    CASE x.t = "list" -> x.v
      [] x.t = "str" -> [i \in 1..Len(x.v) |-> S(x.v[i])]
      [] x.t = "obj" -> SetToSeq({S(k) : k \in DOMAIN x \ {"t"}})

\* a response body: text that json.loads decodes to v, or text it rejects
Text(v) == [t |-> "text", ok |-> TRUE, v |-> v]
BadText == [t |-> "text", ok |-> FALSE]

-----------------------------------------------------------------------------
(* str(), str.isdigit() and int() *)

DigitChar == <<"0", "1", "2", "3", "4", "5", "6", "7", "8", "9">>
DecimalChars == {DigitChar[i] : i \in 1..10}
\* characters str.isdigit() accepts and int() rejects
SuperscriptChars == {"<superscript two>"}

DigitValue(c) == (CHOOSE i \in 1..10 : DigitChar[i] = c) - 1

RECURSIVE Digits(_)
Digits(n) ==
    IF n < 10 THEN <<DigitChar[n + 1]>>
    ELSE Digits(n \div 10) \o <<DigitChar[(n % 10) + 1]>>

\* str(x) of an int, float, bool or str
Str(x) ==
    CASE x.t = "int" -> IF x.v < 0 THEN <<"-">> \o Digits(-x.v) ELSE Digits(x.v)
      [] x.t = "float" -> (IF x.v < 0 THEN <<"-">> \o Digits(-x.v) ELSE Digits(x.v))
                          \o <<".", "0">>
      [] x.t = "bool" -> IF x.v THEN <<"T", "r", "u", "e">>
                         ELSE <<"F", "a", "l", "s", "e">>
      [] x.t = "str" -> x.v

\* s.isdigit()
IsDigit(s) ==
    /\ s # << >>
    /\ \A i \in 1..Len(s) : s[i] \in DecimalChars \cup SuperscriptChars

RECURSIVE DecimalValue(_)
DecimalValue(s) ==
    IF s = << >> THEN 0
    ELSE 10 * DecimalValue(SubSeq(s, 1, Len(s) - 1)) + DigitValue(s[Len(s)])

\* int(x) raises ValueError (x is an int, or a str that passed isdigit())
IntRaises(x) == x.t = "str" /\ \E i \in 1..Len(x.v) : x.v[i] \notin DecimalChars

\* int(x), for x an int or a decimal str
ToInt(x) == IF x.t = "str" THEN DecimalValue(x.v) ELSE x.v

Raise == [raised |-> TRUE]

\* lines 298-302: the identifier the assistant row is written with
final_assistant_id(assistant_message_id, provisional_user_id) ==
    IF /\ assistant_message_id.t \in {"int", "bool", "float", "str"}
       /\ IsDigit(Str(assistant_message_id))
    THEN IF IntRaises(assistant_message_id) THEN Raise
         ELSE [raised |-> FALSE, v |-> ToInt(assistant_message_id)]
    ELSE [raised |-> FALSE, v |-> provisional_user_id + 1]

-----------------------------------------------------------------------------
(* agent_run: the event loop, lines 172-198 *)

DefaultAssistantId_Advanced(parent) == PyInt(parent + 1)

\* line 174
DefaultAssistantId(parent) == PyInt(parent)

NextSql_KeepNonEmpty(j, last_sql) ==
    IF Falsy(Get(j, "sql", last_sql)) THEN last_sql ELSE Get(j, "sql", last_sql)

\* line 191
NextSql(j, last_sql) == Get(j, "sql", last_sql)

\* lines 187-191
RECURSIVE FoldResults(_, _)
FoldResults(acc, rs) ==
    IF rs = << >> \/ acc.raised THEN acc
    ELSE LET res == Head(rs) IN
         IF ~IsDict(res) THEN Raise
         ELSE IF Get(res, "type", None) # S("json") THEN FoldResults(acc, Tail(rs))
         ELSE LET j0 == Get(res, "json", EmptyDict)
                  j == IF Falsy(j0) THEN EmptyDict ELSE j0
              IN  IF ~IsDict(j) THEN Raise
                  ELSE LET tx == Get(j, "text", EmptyStr) IN
                       IF tx.t # "str" THEN Raise
                       ELSE FoldResults([acc EXCEPT !.text = @ \o tx.v,
                                                    !.sql = NextSql(j, @)],
                                        Tail(rs))

\* lines 182-191
RECURSIVE FoldItems(_, _)
FoldItems(acc, items) ==
    IF items = << >> \/ acc.raised THEN acc
    ELSE LET item == Head(items) IN
         IF ~IsDict(item) THEN Raise
         ELSE LET ty == Get(item, "type", None) IN
              IF ty = S("text")
              THEN LET tx == Get(item, "text", EmptyStr) IN
                   IF tx.t # "str" THEN Raise
                   ELSE FoldItems([acc EXCEPT !.text = @ \o tx.v], Tail(items))
              ELSE IF ty = S("tool_results")
              THEN LET tr == Get(item, "tool_results", EmptyDict) IN
                   IF ~IsDict(tr) THEN Raise
                   ELSE LET c == Get(tr, "content", PyList(<< >>)) IN
                        IF NotIterable(c) THEN Raise
                        ELSE FoldItems(FoldResults(acc, Iterate(c)), Tail(items))
              ELSE FoldItems(acc, Tail(items))

IdEvents == {S("message.completed"), S("message.created"), S("response.completed")}

\* lines 177-196: one iteration of `for ev in events`
EventStep(acc, ev) ==
    IF ~IsDict(ev) THEN Raise
    ELSE LET et == Get(ev, "event", None)
             data == Get(ev, "data", EmptyDict)
             acc1 == IF et # S("message.delta") THEN acc
                     ELSE IF ~IsDict(data) THEN Raise
                     ELSE LET delta == Get(data, "delta", EmptyDict) IN
                          IF ~IsDict(delta) THEN Raise
                          ELSE LET c == Get(delta, "content", PyList(<< >>)) IN
                               IF NotIterable(c) THEN Raise
                               ELSE FoldItems(acc, Iterate(c))
         IN  IF acc1.raised \/ et \notin IdEvents THEN acc1
             ELSE IF ~IsDict(data) THEN Raise
             ELSE LET mid == Get(data, "message_id", None) IN
                  IF mid # None THEN [acc1 EXCEPT !.mid = mid] ELSE acc1

RECURSIVE FoldEvents(_, _)
FoldEvents(acc, evs) ==
    IF evs = << >> \/ acc.raised THEN acc
    ELSE FoldEvents(EventStep(acc, Head(evs)), Tail(evs))

\* lines 172-198
ParseEvents(events, parent) ==
    IF NotIterable(events) THEN Raise
    ELSE FoldEvents([raised |-> FALSE, text |-> << >>, sql |-> EmptyStr,
                     mid |-> DefaultAssistantId(parent)],
                    Iterate(events))

\* json.loads(resp.get("content", dflt) or dflt): the value, or BadText
Loads(resp, dflt) ==
    LET c == Get(resp, "content", None) IN
    IF Falsy(c) THEN Text(dflt) ELSE c

FailedReturn_NoId(parent) ==
    [raised |-> FALSE, text |-> << >>, sql |-> EmptyStr, mid |-> None]

\* lines 163, 170: what agent_run returns when the call failed
FailedReturn(parent) ==
    [raised |-> FALSE, text |-> << >>, sql |-> EmptyStr, mid |-> PyInt(parent)]

\* resp.get("status", -1)
StatusOf(resp) == Get(resp, "status", PyInt(-1))

\* agent_run after the request has returned resp: lines 156-198
agent_run(resp, parent) ==
    IF StatusOf(resp) # PyInt(200) THEN FailedReturn(parent)
    ELSE LET body == Loads(resp, PyList(<< >>)) IN
         IF ~body.ok THEN FailedReturn(parent)
         ELSE ParseEvents(body.v, parent)

\* the call is a failed RunTurn: non-200 status or a body json.loads rejects
RunFailed(resp) ==
    \/ StatusOf(resp) # PyInt(200)
    \/ ~Loads(resp, PyList(<< >>)).ok

-----------------------------------------------------------------------------
(* The three tables *)

USER == S("APP_USER")   \* get_current_user()

\* insert_thread: the row appended to THREADS_TABLE
ThreadRow(thread_id, user, now) ==
    [THREAD_ID |-> thread_id, USER_NAME |-> user, CREATED_AT |-> now, TITLE |-> None]

\* insert_message: the row appended to MESSAGES_TABLE; message_id is an int
MessageRow(thread_id, message_id, role, content, now) ==
    [THREAD_ID |-> thread_id, MESSAGE_ID |-> message_id, ROLE |-> role,
     CONTENT |-> content, CREATED_AT |-> now]

\* log_api_call: the row appended to AUDIT_TABLE; int(status_code or -1)
AuditRow(thread_id, parent, prompt, status) ==
    [THREAD_ID |-> thread_id, PARENT_MESSAGE_ID |-> parent, PROMPT |-> prompt,
     HTTP_STATUS |-> IF Falsy(status) THEN -1 ELSE status.v]

\* ORDER BY MESSAGE_ID ASC, CREATED_AT ASC
RowBefore(a, b) ==
    \/ a.MESSAGE_ID < b.MESSAGE_ID
    \/ a.MESSAGE_ID = b.MESSAGE_ID /\ a.CREATED_AT < b.CREATED_AT

RECURSIVE InsertRow(_, _)
InsertRow(row, sorted) ==
    IF sorted = << >> THEN <<row>>
    ELSE IF RowBefore(row, Head(sorted)) THEN <<row>> \o sorted
    ELSE <<Head(sorted)>> \o InsertRow(row, Tail(sorted))

RECURSIVE SortRows(_)
SortRows(rows) ==
    IF rows = << >> THEN << >> ELSE InsertRow(Head(rows), SortRows(Tail(rows)))

RECURSIVE SelectThread(_, _)
SelectThread(rows, thread_id) ==
    IF rows = << >> THEN << >>
    ELSE (IF Head(rows).THREAD_ID = thread_id THEN <<Head(rows)>> ELSE << >>)
         \o SelectThread(Tail(rows), thread_id)

\* load_messages(thread_id) on the table contents rows
load_messages(rows, thread_id) == SortRows(SelectThread(rows, thread_id))

\* the id of the row read first
last_msg_id_First(hist) == IF hist = << >> THEN 0 ELSE hist[1].MESSAGE_ID

\* lines 237-245: the highest message id seen
RECURSIVE last_msg_id(_)
last_msg_id(hist) ==
    IF hist = << >> THEN 0
    ELSE LET rest == last_msg_id(SubSeq(hist, 1, Len(hist) - 1))
             id == hist[Len(hist)].MESSAGE_ID
         IN  IF id > rest THEN id ELSE rest

\* the separator of the selectbox label (U+2014)
EmDash == "<em dash>"

\* lines 216-219: the selectbox label of a thread row
Label(row) ==
    row.THREAD_ID.v \o <<" ", " ", EmDash, " ", " ">>
    \o (IF Falsy(row.TITLE) THEN <<"(untitled)">> ELSE row.TITLE.v)

\* choice.split(EM DASH)[0]
RECURSIVE SplitHead(_)
SplitHead(s) ==
    IF s = << >> \/ Head(s) = EmDash THEN << >> ELSE <<Head(s)>> \o SplitHead(Tail(s))

\* s.strip()
RECURSIVE Strip(_)
Strip(s) ==
    IF s = << >> THEN s
    ELSE IF Head(s) = " " THEN Strip(Tail(s))
    ELSE IF s[Len(s)] = " " THEN Strip(SubSeq(s, 1, Len(s) - 1))
    ELSE s

\* line 232
selected_id(choice) == PyStr(Strip(SplitHead(choice)))

-----------------------------------------------------------------------------
(* create_thread after the request has returned resp: lines 101-116 *)

CreateFailed_IgnoresStatus(status, thread_id) == Falsy(thread_id)

\* line 113
CreateFailed(status, thread_id) == status # PyInt(200) \/ Falsy(thread_id)

create_thread(resp) ==
    LET status == StatusOf(resp)
        body == Loads(resp, EmptyDict)
        thread_id == IF body.ok /\ IsDict(body.v)
                     THEN Get(body.v, "thread_id", None)
                     ELSE None
    IN  [row |-> AuditRow(thread_id, 0, S("CREATE_THREAD"), status),
         ret |-> IF CreateFailed(status, thread_id) THEN None ELSE thread_id]

-----------------------------------------------------------------------------
(* The remote gateway: what _snowflake.send_snow_api_request can answer *)

\* a response dict with or without a status
StatusParts ==
    {[t |-> "obj", status |-> PyInt(200)], [t |-> "obj", status |-> PyInt(500)],
     [t |-> "obj"]}

Response(part, content) ==
    [k \in DOMAIN part \cup {"content"} |->
        IF k = "content" THEN content ELSE part[k]]

ThreadIds == {S("t1"), S("t2")}
Prompts == {<<"hi">>}

ThreadObj(thread_id) == [t |-> "obj", thread_id |-> thread_id]

\* responses of POST /api/v2/cortex/threads; the gateway issues identifiers
\* that are not in use
ThreadResponses(used) ==
    LET ok == [t |-> "obj", status |-> PyInt(200)]
        err == [t |-> "obj", status |-> PyInt(500)]
        fresh == {Text(ThreadObj(tid)) : tid \in ThreadIds \ used}
    IN  {Response(ok, c) : c \in {Text(ThreadObj(EmptyStr))} \cup fresh}
        \cup {Response(err, c) : c \in fresh}
        \cup {Response([t |-> "obj"], BadText)}

TextItem(text) == [t |-> "obj", type |-> S("text"), text |-> text]
JsonResult(j) == [t |-> "obj", type |-> S("json"), json |-> j]
ToolItem(results) ==
    [t |-> "obj", type |-> S("tool_results"),
     tool_results |-> [t |-> "obj", content |-> PyList(results)]]
DeltaEvent(items) ==
    [t |-> "obj", event |-> S("message.delta"),
     data |-> [t |-> "obj", delta |-> [t |-> "obj", content |-> PyList(items)]]]
IdEvent(kind, mid) ==
    [t |-> "obj", event |-> S(kind), data |-> [t |-> "obj", message_id |-> mid]]

\* message_id values a body can carry
MessageIds ==
    {PyInt(0), PyInt(7), PyInt(-1), PyStr(<<"4", "2">>), PyStr(<<"0", "7">>),
     S("a"), EmptyStr, S("<superscript two>"), PyFloat(3), PyBool(TRUE),
     PyList(<< >>)}

IdKind(mid) ==
    CASE mid.t = "int" -> "message.completed"
      [] mid.t = "str" -> "message.created"
      [] OTHER -> "response.completed"

WellFormedEvents ==
    {DeltaEvent(<<TextItem(S("H"))>>),
     DeltaEvent(<<TextItem(S("i")),
                  ToolItem(<<JsonResult([t |-> "obj", text |-> S("X"),
                                         sql |-> S("SELECT 1")])>>)>>),
     DeltaEvent(<<ToolItem(<<JsonResult([t |-> "obj", sql |-> EmptyStr]),
                             JsonResult([t |-> "obj", text |-> S("Y")])>>)>>),
     DeltaEvent(<<ToolItem(<<JsonResult(None),
                             [t |-> "obj", type |-> S("chart"),
                              json |-> [t |-> "obj", text |-> S("W"),
                                        sql |-> S("SELECT 3")]],
                             JsonResult([t |-> "obj", text |-> S("Z"),
                                         sql |-> S("SELECT 2")])>>),
                  [t |-> "obj"]>>),
     IdEvent("response.completed", None),
     IdEvent("message.delta", PyInt(9)),
     [t |-> "obj", event |-> S("message.completed")],
     [t |-> "obj", event |-> S("ping"), data |-> None]}
    \cup {IdEvent(IdKind(mid), mid) : mid \in MessageIds}

\* events of an unexpected shape
MalformedEvents ==
    {PyInt(1),
     [t |-> "obj", event |-> S("message.delta"), data |-> None],
     DeltaEvent(<<TextItem(None)>>),
     [t |-> "obj", event |-> S("message.created"), data |-> PyList(<< >>)]}

Events == WellFormedEvents \cup MalformedEvents

\* bodies of POST /api/v2/cortex/agent:run
Bodies ==
    {None, BadText, Text(None), Text(PyInt(5)), Text(S("ab")), Text(EmptyStr),
     Text(EmptyDict), Text([t |-> "obj", error |-> S("x")])}
    \cup {Text(PyList(evs)) : evs \in UNION {[1..k -> Events] : k \in 0..MaxEvents}}

\* every response to POST /api/v2/cortex/agent:run over Bodies
AllResponses == {Response(part, c) : part \in StatusParts, c \in Bodies}

Answer(mid) ==
    Text(PyList(<<DeltaEvent(<<TextItem(S("H"))>>), IdEvent("message.completed", mid)>>))

\* the responses the session model draws from
SessionResponses ==
    {Response([t |-> "obj", status |-> PyInt(200)], c) :
        c \in {BadText, Text(PyInt(5)), Text(PyList(<< >>))}
              \cup {Answer(mid) : mid \in {PyInt(7), PyInt(-1),
                                           S("<superscript two>")}}}
    \cup {Response([t |-> "obj", status |-> PyInt(500)], BadText),
          Response([t |-> "obj"], Answer(PyInt(7)))}

-----------------------------------------------------------------------------
(* The handlers *)

Pre ==
    [thread |-> current_thread_id, parent |-> parent_message_id,
     messages |-> messages, threads |-> threads, msgs |-> msgs, audit |-> audit]

Init ==
    /\ threads = << >>
    /\ msgs = << >>
    /\ audit = << >>
    /\ current_thread_id = None
    /\ parent_message_id = 0
    /\ messages = << >>
    /\ attempts = 0
    /\ last = [op |-> "init"]

UsedThreadIds == {threads[i].THREAD_ID : i \in 1..Len(threads)}

\* lines 222-230: Start / Switch with "New Thread" selected
NewThread ==
    /\ attempts < MaxAttempts
    /\ attempts' = attempts + 1
    /\ \/ \* send_snow_api_request raises: nothing is caught
          /\ last' = [op |-> "new_thread", outcome |-> "transport", pre |-> Pre]
          /\ UNCHANGED <<threads, msgs, audit, current_thread_id,
                         parent_message_id, messages>>
       \/ \E resp \in ThreadResponses(UsedThreadIds) :
            LET r == create_thread(resp)
            IN  /\ audit' = Append(audit, r.row)
                /\ last' = [op |-> "new_thread", outcome |-> "returned",
                            pre |-> Pre, resp |-> resp, ret |-> r.ret]
                /\ IF ~Falsy(r.ret)
                   THEN /\ threads' = Append(threads,
                                             ThreadRow(r.ret, USER, Len(threads) + 1))
                        /\ current_thread_id' = r.ret
                        /\ parent_message_id' = 0
                        /\ messages' = << >>
                        /\ UNCHANGED msgs
                   ELSE UNCHANGED <<threads, msgs, current_thread_id,
                                    parent_message_id, messages>>

\* lines 231-247: Start / Switch with an existing thread selected
SwitchThread ==
    \E i \in 1..Len(threads) :
        LET choice == Label(threads[i])
            sel == selected_id(choice)
            hist == load_messages(msgs, sel)
        IN  /\ current_thread_id' = sel
            /\ messages' = [k \in 1..Len(hist) |->
                               [role |-> hist[k].ROLE, content |-> hist[k].CONTENT]]
            /\ parent_message_id' = last_msg_id(hist)
            /\ last' = [op |-> "switch", pre |-> Pre, chosen |-> threads[i].THREAD_ID,
                        hist |-> hist]
            /\ UNCHANGED <<threads, msgs, audit, attempts>>

\* lines 258-304: one chat input, the gateway answering from responses
Turn(responses) ==
    /\ ~Falsy(current_thread_id)
    /\ attempts' = attempts + 1
    /\ \E prompt \in Prompts :
        LET thread == current_thread_id
            parent == parent_message_id
            provisional_user_id == parent + 1
            messages1 == Append(messages, [role |-> "user", content |-> prompt])
            msgs1 == Append(msgs, MessageRow(thread, provisional_user_id, "user",
                                             prompt, Len(msgs) + 1))
            base == [op |-> "chat", pre |-> Pre, prompt |-> prompt,
                     provisional_user_id |-> provisional_user_id]
        IN
        \/ \* send_snow_api_request raises: nothing is caught
           /\ msgs' = msgs1
           /\ messages' = messages1
           /\ last' = base @@ [outcome |-> "transport"]
           /\ UNCHANGED <<threads, audit, current_thread_id, parent_message_id>>
        \/ \E resp \in responses :
            LET r == agent_run(resp, parent)
            IN  /\ audit' = Append(audit, AuditRow(thread, parent, PyStr(prompt),
                                                   StatusOf(resp)))
                /\ UNCHANGED <<threads, current_thread_id>>
                /\ IF r.raised
                   THEN \* the event loop raises: the script run ends here
                        /\ msgs' = msgs1
                        /\ messages' = messages1
                        /\ last' = base @@ [outcome |-> "parse_error", resp |-> resp]
                        /\ UNCHANGED parent_message_id
                   ELSE LET messages2 ==
                                IF r.text # << >>
                                THEN Append(messages1, [role |-> "assistant",
                                                        content |-> r.text])
                                ELSE messages1
                            f == final_assistant_id(r.mid, provisional_user_id)
                        IN  /\ messages' = messages2
                            /\ IF f.raised
                               THEN \* int() raises: no assistant row, no advance
                                    /\ msgs' = msgs1
                                    /\ last' = base @@ [outcome |-> "id_error",
                                                        resp |-> resp, ret |-> r]
                                    /\ UNCHANGED parent_message_id
                               ELSE /\ msgs' = Append(msgs1,
                                          MessageRow(thread, f.v, "assistant",
                                                     r.text, Len(msgs1) + 1))
                                    /\ parent_message_id' = f.v
                                    /\ last' = base @@ [outcome |-> "done",
                                                        resp |-> resp, ret |-> r,
                                                        final_assistant_id |-> f.v]

ChatTurn == attempts < MaxAttempts /\ Turn(SessionResponses)

Next == NewThread \/ SwitchThread \/ ChatTurn

Spec == Init /\ [][Next]_vars

-----------------------------------------------------------------------------
(* One chat turn against every body of Bodies, started from a thread that   *)
(* has h completed turns behind it (the gateway having assigned 2, 4, ...)  *)

FirstThread == S("t1")

HistoryMsgs(h) ==
    [k \in 1..(2 * h) |->
        IF k % 2 = 1
        THEN MessageRow(FirstThread, k, "user", <<"hi">>, k)
        ELSE MessageRow(FirstThread, k, "assistant", <<"H">>, k)]

HistoryAudit(h) ==
    <<AuditRow(FirstThread, 0, S("CREATE_THREAD"), PyInt(200))>>
    \o [k \in 1..h |-> AuditRow(FirstThread, 2 * (k - 1), S("hi"), PyInt(200))]

InitTurn ==
    \E h \in 0..MaxHistory :
        /\ threads = <<ThreadRow(FirstThread, USER, 1)>>
        /\ msgs = HistoryMsgs(h)
        /\ audit = HistoryAudit(h)
        /\ current_thread_id = FirstThread
        /\ parent_message_id = 2 * h
        /\ messages = [k \in 1..(2 * h) |->
                          [role |-> HistoryMsgs(h)[k].ROLE,
                           content |-> HistoryMsgs(h)[k].CONTENT]]
        /\ attempts = h + 1
        /\ last = [op |-> "init"]

TurnOnce == last.op = "init" /\ Turn(AllResponses)

NextTurn == TurnOnce

SpecTurn == InitTurn /\ [][NextTurn]_vars

-----------------------------------------------------------------------------
(* Vocabulary of the properties *)

\* the last handler was a chat turn whose agent:run request got a response
Answered == last.op = "chat" /\ last.outcome # "transport"

\* ... and agent_run returned
Returned == last.op = "chat" /\ last.outcome \in {"done", "id_error"}

BodyOf(resp) == Loads(resp, PyList(<< >>))

\* status 200 and a body that decodes to a list of events
Succeeded(resp) ==
    /\ StatusOf(resp) = PyInt(200)
    /\ Get(resp, "content", None).t = "text"
    /\ BodyOf(resp).ok
    /\ BodyOf(resp).v.t = "list"

EventsOf(resp) == BodyOf(resp).v.v

\* the numeric value of an identifier
IsNumber(mid) ==
    \/ mid.t \in {"int", "float"}
    \/ mid.t = "str" /\ mid.v # << >> /\ \A i \in 1..Len(mid.v) : mid.v[i] \in DecimalChars
NumberOf(mid) == IF mid.t = "str" THEN DecimalValue(mid.v) ELSE mid.v

\* event i of evs is an identifier event that carries a message id
Carries(evs, i) ==
    /\ IsDict(evs[i])
    /\ Get(evs[i], "event", None) \in IdEvents
    /\ IsDict(Get(evs[i], "data", EmptyDict))
    /\ Get(Get(evs[i], "data", EmptyDict), "message_id", None) # None

CarriedId(evs, i) == evs[i].data.message_id

\* the message id an event sequence resolves to
LastCarried(evs, parent) ==
    IF \E i \in 1..Len(evs) : Carries(evs, i)
    THEN LET i == CHOOSE i \in 1..Len(evs) :
                      /\ Carries(evs, i)
                      /\ \A k \in (i + 1)..Len(evs) : ~Carries(evs, k)
         IN  CarriedId(evs, i)
    ELSE PyInt(parent)

-----------------------------------------------------------------------------
(* C1 *)

\* C1 as stated: every successful RunTurn returns an assistant message
\* identifier strictly greater than the parent_message_id passed in.
C1_StrictlyGreater ==
    (Returned /\ Succeeded(last.resp))
        => /\ IsNumber(last.ret.mid)
           /\ NumberOf(last.ret.mid) > last.pre.parent

\* C1 amended: a successful RunTurn returns the parent_message_id passed in
\* when no message.completed / message.created / response.completed event
\* carries a message id, and otherwise the message id the last such event
\* carries, whatever its value.
C1_ParentOrCarried ==
    (Returned /\ Succeeded(last.resp))
        => last.ret.mid = LastCarried(EventsOf(last.resp), last.pre.parent)

\* a successful turn on a thread with history whose events carry no id
C1_Witness ==
    /\ Returned /\ Succeeded(last.resp)
    /\ EventsOf(last.resp) # << >>
    /\ \A i \in 1..Len(EventsOf(last.resp)) : ~Carries(EventsOf(last.resp), i)
    /\ last.pre.parent > 0
    /\ last.ret.mid = PyInt(last.pre.parent)

-----------------------------------------------------------------------------
(* C2 *)

\* a run row of the audit table: the call of a turn on thread with parent
IsRunRow(row, thread, parent) ==
    /\ row.THREAD_ID = thread
    /\ row.PARENT_MESSAGE_ID = parent
    /\ row.PROMPT # S("CREATE_THREAD")

\* C2: a failed RunTurn (non-200 status, or a body that cannot be parsed)
\* returns empty text, empty query and the parent identifier it was given,
\* and the turn leaves the session cursor at its pre-call value.
C2_FailedTurnKeepsCursor ==
    (Answered /\ RunFailed(last.resp))
        => /\ last.outcome = "done"
           /\ last.ret.text = << >>
           /\ last.ret.sql = EmptyStr
           /\ last.ret.mid = PyInt(last.pre.parent)
           /\ parent_message_id = last.pre.parent
           /\ current_thread_id = last.pre.thread

\* the second of two consecutive failed turns on a thread whose cursor has
\* advanced before
C2_Witness ==
    /\ Answered /\ RunFailed(last.resp)
    /\ last.pre.parent > 0
    /\ Len(audit) >= 3
    /\ IsRunRow(audit[Len(audit) - 1], last.pre.thread, last.pre.parent)
    /\ audit[Len(audit) - 1].HTTP_STATUS # 200
    /\ parent_message_id = last.pre.parent

-----------------------------------------------------------------------------
(* C3 *)

\* C3: every remote call attempt appends exactly one audit record whatever
\* its outcome, a transport-level exception included; the record of a
\* CreateThread has parent 0 and the prompt CREATE_THREAD, the record of a
\* RunTurn the thread, parent, prompt and status of the call.
C3_OneAuditRecordPerAttempt ==
    /\ Len(audit) = attempts
    /\ last.op = "new_thread" =>
          /\ Len(audit) = Len(last.pre.audit) + 1
          /\ audit[Len(audit)].PARENT_MESSAGE_ID = 0
          /\ audit[Len(audit)].PROMPT = S("CREATE_THREAD")
    /\ last.op = "chat" =>
          /\ Len(audit) = Len(last.pre.audit) + 1
          /\ audit[Len(audit)].THREAD_ID = last.pre.thread
          /\ audit[Len(audit)].PARENT_MESSAGE_ID = last.pre.parent
          /\ audit[Len(audit)].PROMPT = PyStr(last.prompt)
          /\ last.outcome = "transport" => audit[Len(audit)].HTTP_STATUS < 0
          /\ last.outcome # "transport" =>
                audit[Len(audit)].HTTP_STATUS = StatusOf(last.resp).v

-----------------------------------------------------------------------------
(* C4 *)

\* C4: a turn whose RunTurn failed writes no message record derived from the
\* failed call: the user row is the only row the turn appends.
C4_NoAssistantRowOnFailure ==
    (Answered /\ RunFailed(last.resp))
        => /\ Len(msgs) = Len(last.pre.msgs) + 1
           /\ msgs[Len(msgs)].ROLE = "user"

-----------------------------------------------------------------------------
(* C5 *)

\* C5: within one thread, the message identifiers written to the message
\* store strictly increase in write order.
C5_StrictlyIncreasingIds ==
    \A i, j \in 1..Len(msgs) :
        (i < j /\ msgs[i].THREAD_ID = msgs[j].THREAD_ID)
            => msgs[i].MESSAGE_ID < msgs[j].MESSAGE_ID

-----------------------------------------------------------------------------
(* C6 *)

\* a decoded body that is not a list of event objects
UnexpectedShape(v) ==
    \/ v.t # "list"
    \/ \E i \in 1..Len(v.v) : ~IsDict(v.v[i])

\* C6: a 200 response whose body is parseable JSON never makes agent_run
\* raise; a body of an unexpected shape makes it return empty text, empty
\* query and the unchanged parent identifier.
C6_UnexpectedShapeRecoverable ==
    (Answered /\ StatusOf(last.resp) = PyInt(200) /\ BodyOf(last.resp).ok)
        => /\ last.outcome # "parse_error"
           /\ UnexpectedShape(BodyOf(last.resp).v)
                 => /\ last.ret.text = << >>
                    /\ last.ret.sql = EmptyStr
                    /\ last.ret.mid = PyInt(last.pre.parent)

-----------------------------------------------------------------------------
(* C7 *)

\* returnedId is a non-negative integer, as a number or a numeric string
ValidId(mid) ==
    \/ mid.t = "int" /\ mid.v >= 0
    \/ mid.t = "str" /\ mid.v # << >> /\ \A i \in 1..Len(mid.v) : mid.v[i] \in DecimalChars

\* C7: final_assistant_id is returnedId as an integer when returnedId is a
\* valid non-negative integer (number or numeric string), and
\* provisionalUserId + 1 for every other returnedId.
C7_ResolveFinalId ==
    Returned
        => /\ last.outcome = "done"
           /\ last.final_assistant_id =
                 IF ValidId(last.ret.mid) THEN NumberOf(last.ret.mid)
                 ELSE last.provisional_user_id + 1

-----------------------------------------------------------------------------
(* C8 *)

\* the positions of the message table that hold rows of a thread
RowsOf(thread) == {i \in 1..Len(msgs) : msgs[i].THREAD_ID = thread}

\* C8: switching into an existing thread replaces the session's message
\* list with that thread's stored messages in ascending message-id order and
\* sets the cursor to the maximum stored message id of the thread, or to 0
\* when it has none, whatever the session held before.
C8_RestoreCursor ==
    last.op = "switch"
        => LET hist == last.hist
               rows == RowsOf(last.chosen)
           IN  /\ current_thread_id = last.chosen
               /\ Len(hist) = Cardinality(rows)
               /\ \A i \in rows : \E k \in 1..Len(hist) : hist[k] = msgs[i]
               /\ \A k \in 1..(Len(hist) - 1) :
                     hist[k].MESSAGE_ID <= hist[k + 1].MESSAGE_ID
               /\ Len(messages) = Len(hist)
               /\ \A k \in 1..Len(hist) :
                     messages[k] = [role |-> hist[k].ROLE, content |-> hist[k].CONTENT]
               /\ IF rows = {} THEN parent_message_id = 0
                  ELSE /\ \E i \in rows : msgs[i].MESSAGE_ID = parent_message_id
                       /\ \A i \in rows : msgs[i].MESSAGE_ID <= parent_message_id

\* a switch from another thread into a thread with several stored messages
\* whose identifiers were not written in ascending order
C8_Witness ==
    /\ last.op = "switch"
    /\ last.pre.thread # last.chosen
    /\ last.pre.parent # parent_message_id
    /\ Len(last.hist) >= 2
    /\ \E i, j \in RowsOf(last.chosen) : i < j /\ msgs[i].MESSAGE_ID > msgs[j].MESSAGE_ID
    /\ parent_message_id > 0

-----------------------------------------------------------------------------
(* C9 *)

\* the json tool-result entries and text items of an event, in order, each
\* as the dict it contributes ({} for a null json)
JsonOf(res) ==
    LET j == Get(res, "json", EmptyDict) IN IF Falsy(j) THEN EmptyDict ELSE j

IsJsonResult(res) == Get(res, "type", None) = S("json")

RECURSIVE Flatten(_)
Flatten(ss) == IF ss = << >> THEN << >> ELSE Head(ss) \o Flatten(Tail(ss))

ItemEntries(item) ==
    IF Get(item, "type", None) = S("text")
    THEN <<[t |-> "obj", text |-> Get(item, "text", EmptyStr)]>>
    ELSE IF Get(item, "type", None) = S("tool_results")
    THEN LET rs == SelectSeq(Get(Get(item, "tool_results", EmptyDict), "content",
                                 PyList(<< >>)).v, IsJsonResult)
         IN  [k \in 1..Len(rs) |-> JsonOf(rs[k])]
    ELSE << >>

EventEntries(ev) ==
    IF Get(ev, "event", None) = S("message.delta")
    THEN LET items == Get(Get(Get(ev, "data", EmptyDict), "delta", EmptyDict),
                          "content", PyList(<< >>)).v
         IN  Flatten([k \in 1..Len(items) |-> ItemEntries(items[k])])
    ELSE << >>

Entries(evs) == Flatten([k \in 1..Len(evs) |-> EventEntries(evs[k])])

\* C9: text items and json tool-result texts are appended in event order;
\* the generated query is that of the last json entry whose sql key is
\* present (even as ""), "" when there is none; the resolved identifier is
\* the message_id of the last identifier event that carries one.
C9_ParseEventSequence ==
    (Returned /\ Succeeded(last.resp))
        => LET evs == EventsOf(last.resp)
               es == Entries(evs)
               withSql == {k \in 1..Len(es) : "sql" \in DOMAIN es[k]}
           IN  /\ last.ret.text =
                     Flatten([k \in 1..Len(es) |-> Get(es[k], "text", EmptyStr).v])
               /\ last.ret.sql =
                     IF withSql = {} THEN EmptyStr
                     ELSE es[CHOOSE k \in withSql : \A m \in withSql : m <= k].sql
               /\ last.ret.mid = LastCarried(evs, last.pre.parent)

\* a parse in which an empty sql overwrote a query set earlier and a later
\* entry without an sql key left it alone
C9_Witness ==
    /\ Returned /\ Succeeded(last.resp)
    /\ last.ret.sql = EmptyStr
    /\ Len(last.ret.text) >= 3
    /\ LET es == Entries(EventsOf(last.resp))
       IN  \E k, m, n \in 1..Len(es) :
              /\ k < m /\ m < n
              /\ "sql" \in DOMAIN es[k] /\ es[k].sql # EmptyStr
              /\ "sql" \in DOMAIN es[m] /\ es[m].sql = EmptyStr
              /\ "sql" \notin DOMAIN es[n]

-----------------------------------------------------------------------------
(* C10 *)

\* the response of a create-thread call carries a thread id
HasThreadId(resp) ==
    LET body == Loads(resp, EmptyDict) IN
    /\ body.ok
    /\ IsDict(body.v)
    /\ ~Falsy(Get(body.v, "thread_id", None))

\* C10: a CreateThread attempt that fails (status other than 200, or no
\* thread id in the response) changes nothing but the audit log; a Thread row
\* is inserted, and the cursor reset to 0 with an empty message list, only
\* when CreateThread returns a thread id.
C10_FailedCreateChangesOnlyAudit ==
    (last.op = "new_thread" /\ last.outcome = "returned")
        => /\ msgs = last.pre.msgs
           /\ Len(audit) = Len(last.pre.audit) + 1
           /\ SubSeq(audit, 1, Len(last.pre.audit)) = last.pre.audit
           /\ IF StatusOf(last.resp) # PyInt(200) \/ ~HasThreadId(last.resp)
              THEN /\ threads = last.pre.threads
                   /\ current_thread_id = last.pre.thread
                   /\ parent_message_id = last.pre.parent
                   /\ messages = last.pre.messages
              ELSE /\ Len(threads) = Len(last.pre.threads) + 1
                   /\ SubSeq(threads, 1, Len(last.pre.threads)) = last.pre.threads
                   /\ threads[Len(threads)].THREAD_ID = last.ret
                   /\ current_thread_id = last.ret
                   /\ parent_message_id = 0
                   /\ messages = << >>

\* a failed CreateThread whose response carries a thread id, in a session
\* that is in a thread with messages and an advanced cursor
C10_Witness ==
    /\ last.op = "new_thread" /\ last.outcome = "returned"
    /\ StatusOf(last.resp) # PyInt(200)
    /\ HasThreadId(last.resp)
    /\ last.pre.parent > 0
    /\ last.pre.messages # << >>
    /\ ~Falsy(last.pre.thread)
    /\ threads = last.pre.threads

====
